---- MODULE Spec2Model ----
(***************************************************************************)
(* Poll lifecycle, vote tally and daily quota of the vottik backend.       *)
(*                                                                         *)
(* The database is one record `db` of tables, each table a set of rows.    *)
(* Instants are counted in ticks of the resolution the handlers print the  *)
(* clock with ('%Y-%m-%d %H:%M:%S'); a date is the day a tick falls in.    *)
(* Handlers of the routers are modelled twice from the same statement      *)
(* operators: as one atomic action each (requests handled one at a time)   *)
(* and, for the vote handlers, statement by statement on a connection of   *)
(* their own (requests of several workers interleaving).                   *)
(***************************************************************************)
EXTENDS Integers, FiniteSets, Sequences, TLC

\* ---------------------------------------------------------------- bounds
NumUsers == 2          \* registered users 1..NumUsers
MaxPolls == 3          \* poll rows inserted where the quota is exercised
MaxVoteRows == 2       \* vote rows ever inserted
MaxDay == 8            \* last calendar day the clock reaches
TicksPerDay == 2       \* clock ticks in one calendar day
MaxDrift == 1          \* ticks the clock may advance while one request runs
TallyPolls == 1        \* polls created where votes are counted
LastCreateTick == 0    \* last instant at which a request creates one of them
QuotaLastDay == 1      \* last day reached where the quota is exercised
MaxLikeRows == 1       \* like rows ever inserted
MaxComments == 1       \* comment rows ever inserted
NumConns == 2          \* connections, one per request in flight
MaxRequests == 3       \* vote requests run statement by statement

\* ------------------------------------------------------ program constants
POLL_DURATION_DAYS == 7
DAILY_POLL_LIMIT == 2
NumCategories == 8     \* categories seeded by create_tables
EditorId == 1          \* the editor user seeded by create_tables

MaxTime == (MaxDay + 1) * TicksPerDay - 1
Users == 1..NumUsers
Choices == {"gercek", "efsane"}

\* a category lookup that finds a row for the id after the seeded ones too
CategoriesOneMore == 1..(NumCategories + 1)

\* the ids of the categories create_tables seeds
Categories == 1..NumCategories

Conns == 1..NumConns

VARIABLES
    now,      \* the clock
    db,       \* committed tables
    tx,       \* the open write transaction: its connection and its tables
    conns,    \* the request each connection is running, and how far it is
    last,     \* the response the caller of the last finished request got
    hist,     \* every successful create_poll: who, and the day it finished
    begun     \* how many requests have been run statement by statement

vars == <<now, db, tx, conns, last, hist, begun>>

\* ------------------------------------------------------------ conversions
\* datetime.now().strftime('%Y-%m-%d'): the calendar day of an instant
DateOf(t) == t \div TicksPerDay

\* datetime.now() + timedelta(days = n)
PlusDays(t, n) == t + n * TicksPerDay

Min(a, b) == IF a < b THEN a ELSE b
Max(a, b) == IF a > b THEN a ELSE b

\* the instants a later clock read of the same request may return
LaterReads(t) == t..Min(t + MaxDrift, MaxTime)

\* current_user.get("is_editor")
IsEditor(u) == u = EditorId

\* ------------------------------------------------------------- statements
\* SELECT ... FROM polls WHERE id = ?
SelectPoll(d, p) == {r \in d.polls : r.id = p}

\* SELECT id, vote_type FROM votes WHERE user_id = ? AND poll_id = ?
SelectVote(d, u, p) == {v \in d.votes : v.user_id = u /\ v.poll_id = p}

\* a votes table declared without the UNIQUE constraint
VoteUniqueMissing(d, u, p) == TRUE

\* UNIQUE(user_id, poll_id) of the votes table: may the row be inserted?
VoteUniqueOk(d, u, p) == \A v \in d.votes : ~(v.user_id = u /\ v.poll_id = p)

\* INSERT INTO votes (user_id, poll_id, vote_type, created_at)
InsertVote(d, u, p, c) ==
    [d EXCEPT !.votes = @ \cup {[id |-> d.seq.votes + 1, user_id |-> u,
                                 poll_id |-> p, vote_type |-> c]},
              !.seq.votes = @ + 1]

\* an UPDATE of the votes table that matches no row
UpdateVoteTypeNoRow(d, vid, c) == d

\* UPDATE votes SET vote_type = ? WHERE id = ?
UpdateVoteType(d, vid, c) ==
    [d EXCEPT !.votes = {IF v.id = vid THEN [v EXCEPT !.vote_type = c] ELSE v
                         : v \in @}]

\* DELETE FROM votes WHERE id = ?
DeleteVote(d, vid) == [d EXCEPT !.votes = {v \in @ : v.id # vid}]

\* UPDATE polls SET <c>_votes = <c>_votes + 1 WHERE id = ?
IncVotes(d, p, c) ==
    [d EXCEPT !.polls = {IF r.id # p THEN r
                         ELSE IF c = "gercek"
                              THEN [r EXCEPT !.gercek_votes = @ + 1]
                              ELSE [r EXCEPT !.efsane_votes = @ + 1] : r \in @}]

\* DecVotes naming the column of the other choice
DecVotesOtherColumn(d, p, c) ==
    [d EXCEPT !.polls = {IF r.id # p THEN r
                         ELSE IF c = "gercek"
                              THEN [r EXCEPT !.efsane_votes = @ - 1]
                              ELSE [r EXCEPT !.gercek_votes = @ - 1] : r \in @}]

\* UPDATE polls SET <c>_votes = <c>_votes - 1 WHERE id = ?
DecVotes(d, p, c) ==
    [d EXCEPT !.polls = {IF r.id # p THEN r
                         ELSE IF c = "gercek"
                              THEN [r EXCEPT !.gercek_votes = @ - 1]
                              ELSE [r EXCEPT !.efsane_votes = @ - 1] : r \in @}]

\* FlipVotes without the decrement of the old choice
FlipVotesNoDecrement(d, p, c) ==
    [d EXCEPT !.polls = {IF r.id # p THEN r
                         ELSE IF c = "gercek"
                              THEN [r EXCEPT !.gercek_votes = @ + 1]
                              ELSE [r EXCEPT !.efsane_votes = @ + 1] : r \in @}]

\* UPDATE polls SET <c>_votes = <c>_votes + 1, <other>_votes = <other>_votes - 1
FlipVotes(d, p, c) ==
    [d EXCEPT !.polls = {IF r.id # p THEN r
                         ELSE IF c = "gercek"
                              THEN [r EXCEPT !.gercek_votes = @ + 1,
                                             !.efsane_votes = @ - 1]
                              ELSE [r EXCEPT !.efsane_votes = @ + 1,
                                             !.gercek_votes = @ - 1] : r \in @}]

\* SELECT id FROM likes WHERE user_id = ? AND poll_id = ?
SelectLike(d, u, p) == {l \in d.likes : l.user_id = u /\ l.poll_id = p}

\* INSERT INTO likes (user_id, poll_id, created_at)
InsertLike(d, u, p) ==
    [d EXCEPT !.likes = @ \cup {[id |-> d.seq.likes + 1, user_id |-> u, poll_id |-> p]},
              !.seq.likes = @ + 1]

\* UPDATE polls SET likes_count = likes_count + 1 WHERE id = ?
IncLikes(d, p) ==
    [d EXCEPT !.polls = {IF r.id = p THEN [r EXCEPT !.likes_count = @ + 1] ELSE r
                         : r \in @}]

\* INSERT INTO comments (user_id, poll_id, content, created_at, updated_at);
\* is_active takes its column default 1; every comment is posted with the
\* same text
InsertComment(d, u, p) ==
    [d EXCEPT !.comments = @ \cup {[id |-> d.seq.comments + 1, user_id |-> u,
                                    poll_id |-> p, content |-> "posted",
                                    is_active |-> 1]},
              !.seq.comments = @ + 1]

\* UPDATE polls SET comments_count = comments_count + 1 WHERE id = ?
IncComments(d, p) ==
    [d EXCEPT !.polls = {IF r.id = p THEN [r EXCEPT !.comments_count = @ + 1] ELSE r
                         : r \in @}]

\* the expiry test with the comparison turned around
IsExpiredReversed(r, t) == r.expires_at > t

\* poll[1] < now: the stored expires_at against the instant of the request
IsExpired(r, t) == r.expires_at < t

\* ------------------------------------------------------- response schemas
VoteResponseRequired == {"id", "user_id", "poll_id", "vote_type", "created_at"}
VoteResponseGiven == {"poll_id", "vote_type", "message"}

\* VoteResponse(poll_id=..., vote_type=..., message=msg): pydantic raises a
\* ValidationError when a required field is missing, which the caller sees
\* as an internal server error
BuildVoteResponse(msg) ==
    IF VoteResponseRequired \subseteq VoteResponseGiven THEN msg ELSE "ServerError"

CommentResponseRequired ==
    {"id", "user_id", "poll_id", "content", "created_at",
     "username", "display_name", "avatar_url", "is_editor"}
CommentResponseGiven ==
    {"id", "content", "created_at", "updated_at", "user_id",
     "username", "display_name", "avatar_url", "is_editor", "is_own"}

\* the dict create_comment returns, validated against response_model
BuildCommentResponse(msg) ==
    IF CommentResponseRequired \subseteq CommentResponseGiven THEN msg ELSE "ServerError"

\* ------------------------------------------------- handlers, as functions
\* Each returns the committed database and the outcome the caller sees.
\* `did` names the branch that ran, for the properties; the caller does not
\* see it.
Out(d, res, did) == [db |-> d, res |-> res, did |-> did]

\* fields of a response that the request did not fill
NoBody == [gercek_votes |-> -1, efsane_votes |-> -1, gercek_percentage |-> -1,
           efsane_percentage |-> -1, remaining |-> -1]

\* POST /votes
vote(d, u, p, c, t) ==
    LET poll == SelectPoll(d, p)
        existing == SelectVote(d, u, p)
    IN  IF poll = {} THEN Out(d, "NotFound", "none")
        ELSE IF \E r \in poll : IsExpired(r, t) THEN Out(d, "Expired", "none")
        ELSE IF existing # {}
             THEN LET ev == CHOOSE v \in existing : TRUE
                  IN  IF ev.vote_type = c
                      THEN Out(d, BuildVoteResponse("Zaten bu sekilde oy vermissiniz"),
                               "same")
                      ELSE Out(FlipVotes(UpdateVoteType(d, ev.id, c), p, c),
                               BuildVoteResponse("Oyunuz degistirildi"), "changed")
        ELSE Out(IncVotes(InsertVote(d, u, p, c), p, c),
                 BuildVoteResponse("Oyunuz kaydedildi"), "saved")

\* remove_vote without the "Oy var mi?" check: the row of no vote has no
\* vote_type, so the else branch of the counter update runs
remove_vote_unchecked(d, u, p, t) ==
    LET poll == SelectPoll(d, p)
        existing == SelectVote(d, u, p)
    IN  IF poll = {} THEN Out(d, "NotFound", "none")
        ELSE IF \E r \in poll : IsExpired(r, t) THEN Out(d, "Expired", "none")
        ELSE IF existing = {}
             THEN Out(DecVotes(d, p, "efsane"), "Oyunuz geri cekildi", "removed")
        ELSE LET ev == CHOOSE v \in existing : TRUE
             IN  Out(DecVotes(DeleteVote(d, ev.id), p, ev.vote_type),
                     "Oyunuz geri cekildi", "removed")

\* DELETE /votes/{poll_id}
remove_vote(d, u, p, t) ==
    LET poll == SelectPoll(d, p)
        existing == SelectVote(d, u, p)
    IN  IF poll = {} THEN Out(d, "NotFound", "none")
        ELSE IF \E r \in poll : IsExpired(r, t) THEN Out(d, "Expired", "none")
        ELSE IF existing = {} THEN Out(d, "NotFound", "novote")
        ELSE LET ev == CHOOSE v \in existing : TRUE
             IN  Out(DecVotes(DeleteVote(d, ev.id), p, ev.vote_type),
                     "Oyunuz geri cekildi", "removed")

\* like_poll without the "Sure dolmus mu?" check
like_poll_ungated(d, u, p, t) ==
    IF SelectPoll(d, p) = {} THEN Out(d, "NotFound", "none")
    ELSE IF SelectLike(d, u, p) # {} THEN Out(d, "AlreadyLiked", "none")
    ELSE Out(IncLikes(InsertLike(d, u, p), p), "Anket begenildi", "liked")

\* POST /users/like/{poll_id}
like_poll(d, u, p, t) ==
    LET poll == SelectPoll(d, p)
    IN  IF poll = {} THEN Out(d, "NotFound", "none")
        ELSE IF \E r \in poll : IsExpired(r, t) THEN Out(d, "Expired", "none")
        ELSE IF SelectLike(d, u, p) # {} THEN Out(d, "AlreadyLiked", "none")
        ELSE Out(IncLikes(InsertLike(d, u, p), p), "Anket begenildi", "liked")

\* POST /comments
create_comment(d, u, p, t) ==
    LET poll == SelectPoll(d, p)
    IN  IF poll = {} THEN Out(d, "NotFound", "none")
        ELSE IF \E r \in poll : IsExpired(r, t) THEN Out(d, "Expired", "none")
        ELSE Out(IncComments(InsertComment(d, u, p), p),
                 BuildCommentResponse("Created"), "commented")

\* ---------------------------------------------------------------- quota
\* SELECT poll_count FROM daily_poll_limits WHERE user_id = ? AND poll_date = ?
SelectLimit(d, u, day) == {l \in d.limits : l.user_id = u /\ l.poll_date = day}

\* check_daily_limit looking at the rows of every date
check_daily_limit_any_date(d, u, t) ==
    LET result == {l \in d.limits : l.user_id = u}
    IN  IF result # {}
        THEN Max(0, DAILY_POLL_LIMIT - (CHOOSE l \in result : TRUE).poll_count)
        ELSE DAILY_POLL_LIMIT

\* check_daily_limit: the remaining allowance of the user for today
check_daily_limit(d, u, t) ==
    LET result == SelectLimit(d, u, DateOf(t))
    IN  IF result # {}
        THEN Max(0, DAILY_POLL_LIMIT - (CHOOSE l \in result : TRUE).poll_count)
        ELSE DAILY_POLL_LIMIT

\* increment_daily_count as INSERT OR REPLACE ... VALUES (?, ?, 1): the row of
\* the day is written with 1 every time
increment_daily_count_replacing(d, u, t) ==
    LET today == DateOf(t)
    IN  [d EXCEPT !.limits = {l \in @ : ~(l.user_id = u /\ l.poll_date = today)}
                                \cup {[user_id |-> u, poll_date |-> today,
                                       poll_count |-> 1]}]

\* increment_daily_count: INSERT ... VALUES (?, ?, 1) ON CONFLICT (user_id,
\* poll_date) DO UPDATE SET poll_count = poll_count + 1
increment_daily_count(d, u, t) ==
    LET today == DateOf(t)
    IN  IF SelectLimit(d, u, today) = {}
        THEN [d EXCEPT !.limits = @ \cup {[user_id |-> u, poll_date |-> today,
                                           poll_count |-> 1]}]
        ELSE [d EXCEPT !.limits = {IF l.user_id = u /\ l.poll_date = today
                                   THEN [l EXCEPT !.poll_count = @ + 1] ELSE l
                                   : l \in @}]

\* INSERT INTO polls (user_id, category_id, question, expires_at, created_at);
\* the four counters take their column default 0
InsertPoll(d, u, cat, expires_at, created_at) ==
    [d EXCEPT !.polls = @ \cup {[id |-> d.seq.polls + 1, user_id |-> u,
                                 category_id |-> cat,
                                 gercek_votes |-> 0, efsane_votes |-> 0,
                                 likes_count |-> 0, comments_count |-> 0,
                                 created_at |-> created_at,
                                 expires_at |-> expires_at]},
              !.seq.polls = @ + 1]

\* create_poll rejecting only when the allowance is below zero
create_poll_off_by_one(d, u, cat, tCheck, tExp, tCre, tInc) ==
    IF ~IsEditor(u) /\ check_daily_limit(d, u, tCheck) < 0
    THEN Out(d, "QuotaExceeded", "none")
    ELSE IF cat \notin Categories THEN Out(d, "InvalidCategory", "none")
    ELSE LET d1 == InsertPoll(d, u, cat, PlusDays(tExp, POLL_DURATION_DAYS), tCre)
             d2 == IF ~IsEditor(u) THEN increment_daily_count(d1, u, tInc) ELSE d1
         IN  Out(d2, "Created", "created")

\* POST /polls; tCheck, tExp, tCre, tInc are the four clock reads of the
\* request, in the order the handler makes them
create_poll(d, u, cat, tCheck, tExp, tCre, tInc) ==
    IF ~IsEditor(u) /\ check_daily_limit(d, u, tCheck) <= 0
    THEN Out(d, "QuotaExceeded", "none")
    ELSE IF cat \notin Categories THEN Out(d, "InvalidCategory", "none")
    ELSE LET d1 == InsertPoll(d, u, cat, PlusDays(tExp, POLL_DURATION_DAYS), tCre)
             d2 == IF ~IsEditor(u) THEN increment_daily_count(d1, u, tInc) ELSE d1
         IN  Out(d2, "Created", "created")

\* ------------------------------------------------------------ poll reads
\* ROUND(x) of SQLite for x = n / m >= 0: to the nearest integer, halves up
Round(n, m) == (2 * n + m) \div (2 * m)

\* CASE WHEN (gercek_votes + efsane_votes) > 0 THEN ROUND(... * 100) ELSE 50
SqlPercentage(r) ==
    IF r.gercek_votes + r.efsane_votes > 0
    THEN Round(100 * r.gercek_votes, r.gercek_votes + r.efsane_votes)
    ELSE 50

\* format_poll_response: poll_row["gercek_percentage"] if
\* poll_row["gercek_percentage"] else 50
format_poll_response(r) ==
    LET pct == SqlPercentage(r)
    IN  [gercek_votes |-> r.gercek_votes, efsane_votes |-> r.efsane_votes,
         gercek_percentage |-> IF pct # 0 THEN pct ELSE 50]

\* PollResponse.calculate_efsane_percentage
calculate_efsane_percentage(values) == 100 - values.gercek_percentage

\* GET /polls/{poll_id}
get_poll(d, p) ==
    LET poll == SelectPoll(d, p)
    IN  IF poll = {} THEN [res |-> "NotFound", body |-> NoBody]
        ELSE LET values == format_poll_response(CHOOSE r \in poll : TRUE)
             IN  [res |-> "Poll",
                  body |-> [NoBody EXCEPT
                      !.gercek_votes = values.gercek_votes,
                      !.efsane_votes = values.efsane_votes,
                      !.gercek_percentage = values.gercek_percentage,
                      !.efsane_percentage = calculate_efsane_percentage(values)]]

\* GET /polls/my-limit
get_my_poll_limit(d, u, t) ==
    [res |-> "Limit", body |-> [NoBody EXCEPT !.remaining = check_daily_limit(d, u, t)]]

\* ----------------------------------------------------------------- state
\* create_tables: empty tables; the AUTOINCREMENT sequences start at 0
EmptyDb ==
    [polls |-> {}, votes |-> {}, likes |-> {}, comments |-> {}, limits |-> {},
     seq |-> [polls |-> 0, votes |-> 0, likes |-> 0, comments |-> 0]]

Response(op, res, did, body) ==
    [op |-> op, res |-> res, did |-> did, body |-> body]

\* a connection running no request
Idle == [pc |-> "idle", op |-> "none", user |-> 0, poll |-> 0, choice |-> "none",
         t |-> 0, seen |-> {}]

NoTx == [owner |-> 0, db |-> EmptyDb]

Init ==
    /\ now = 0
    /\ db = EmptyDb
    /\ tx = NoTx
    /\ conns = [c \in Conns |-> Idle]
    /\ last = Response("none", "none", "none", NoBody)
    /\ hist = {}
    /\ begun = 0

\* poll ids a request may name: every id ever given out and one never given
PollIds == 1..(db.seq.polls + 1)

\* the categories a request may name: a seeded one and one that does not exist
CategoryInputs == {1, NumCategories + 1}

\* no request is in flight
Quiet == tx.owner = 0 /\ \A c \in Conns : conns[c].pc = "idle"

\* ------------------------------------------- requests handled one at a time
\* time passes between two requests
TickUntil(tMax) ==
    /\ now < tMax
    /\ now' = now + 1
    /\ UNCHANGED <<db, tx, conns, last, hist, begun>>

Tick == TickUntil(MaxTime)

CreatePoll(u, cat, maxPolls) ==
    \E tExp \in LaterReads(now) : \E tCre \in tExp..Max(tExp, Min(now + MaxDrift, MaxTime)) :
    \E tInc \in tCre..Max(tCre, Min(now + MaxDrift, MaxTime)) :
        LET o == create_poll(db, u, cat, now, tExp, tCre, tInc)
            \* the last clock read the request made
            tEnd == IF o.did # "created" THEN now
                    ELSE IF IsEditor(u) THEN tCre ELSE tInc
        IN  /\ Quiet
            /\ o.did = "created" => db.seq.polls < maxPolls
            /\ IsEditor(u) => tInc = tCre
            /\ db' = o.db
            /\ now' = tEnd
            /\ last' = Response("create_poll", o.res, o.did, NoBody)
            /\ hist' = IF o.did = "created"
                       THEN hist \cup {[poll |-> db.seq.polls + 1, user |-> u,
                                        day |-> DateOf(tEnd)]}
                       ELSE hist
            /\ UNCHANGED <<tx, conns, begun>>

Vote(u, p, c) ==
    LET o == vote(db, u, p, c, now)
    IN  /\ o.did = "saved" => db.seq.votes < MaxVoteRows
        /\ db' = o.db
        /\ last' = Response("vote", o.res, o.did, NoBody)
        /\ UNCHANGED <<now, tx, conns, hist, begun>>

RemoveVote(u, p) ==
    LET o == remove_vote(db, u, p, now)
    IN  /\ db' = o.db
        /\ last' = Response("remove_vote", o.res, o.did, NoBody)
        /\ UNCHANGED <<now, tx, conns, hist, begun>>

LikePoll(u, p) ==
    LET o == like_poll(db, u, p, now)
    IN  /\ o.did = "liked" => db.seq.likes < MaxLikeRows
        /\ db' = o.db
        /\ last' = Response("like_poll", o.res, o.did, NoBody)
        /\ UNCHANGED <<now, tx, conns, hist, begun>>

CreateComment(u, p) ==
    LET o == create_comment(db, u, p, now)
    IN  /\ o.did = "commented" => db.seq.comments < MaxComments
        /\ db' = o.db
        /\ last' = Response("create_comment", o.res, o.did, NoBody)
        /\ UNCHANGED <<now, tx, conns, hist, begun>>

GetPoll(p) ==
    LET o == get_poll(db, p)
    IN  /\ last' = Response("get_poll", o.res, "none", o.body)
        /\ UNCHANGED <<now, db, tx, conns, hist, begun>>

GetMyPollLimit(u) ==
    LET o == get_my_poll_limit(db, u, now)
    IN  /\ last' = Response("my_limit", o.res, "none", o.body)
        /\ UNCHANGED <<now, db, tx, conns, hist, begun>>

\* the vote tally: one poll, votes cast, changed, retracted and read
Next ==
    \/ Tick
    \/ now <= LastCreateTick /\ CreatePoll(EditorId, 1, TallyPolls)
    \/ \E u \in Users, p \in PollIds, c \in Choices : Vote(u, p, c)
    \/ \E u \in Users, p \in PollIds : RemoveVote(u, p)
    \/ \E p \in PollIds : GetPoll(p)

Spec == Init /\ [][Next]_vars

\* the daily quota: polls created by the editor and by the other users
NextQuota ==
    \/ TickUntil((QuotaLastDay + 1) * TicksPerDay - 1)
    \/ \E u \in Users, cat \in CategoryInputs : CreatePoll(u, cat, MaxPolls)
    \/ \E u \in Users : GetMyPollLimit(u)

SpecQuota == Init /\ [][NextQuota]_vars

\* expiry: every request that is gated by the expiry of the poll
NextGate ==
    \/ Tick
    \/ now <= LastCreateTick /\ CreatePoll(EditorId, 1, TallyPolls)
    \/ \E u \in Users, p \in PollIds, c \in Choices : Vote(u, p, c)
    \/ \E u \in Users, p \in PollIds : RemoveVote(u, p)
    \/ \E u \in Users, p \in PollIds : LikePoll(u, p)
    \/ \E u \in Users, p \in PollIds : CreateComment(u, p)

SpecGate == Init /\ [][NextGate]_vars

\* ------------------------------------- vote requests, statement by statement
\* Each request runs on a connection of its own (get_db).  A SELECT outside a
\* transaction reads the committed tables.  The first INSERT, UPDATE or
\* DELETE of a connection opens its transaction and takes the write lock of
\* the database file; its writes stay private until db.commit().

\* the request leaves the handler: the caller gets the response and get_db
\* closes the connection
Finish(c, res, did) ==
    /\ conns' = [conns EXCEPT ![c] = Idle]
    /\ last' = Response(conns[c].op, res, did, NoBody)

\* the clock read and the SELECT of the poll that open vote and remove_vote
Begin(c, op, u, p, ch) ==
    /\ conns[c].pc = "idle"
    /\ begun < MaxRequests
    /\ begun' = begun + 1
    /\ LET poll == SelectPoll(db, p)
       IN  IF poll = {}
           THEN /\ conns' = conns
                /\ last' = Response(op, "NotFound", "none", NoBody)
           ELSE IF \E r \in poll : IsExpired(r, now)
           THEN /\ conns' = conns
                /\ last' = Response(op, "Expired", "none", NoBody)
           ELSE /\ conns' = [conns EXCEPT ![c] =
                        [pc |-> "select_vote", op |-> op, user |-> u, poll |-> p,
                         choice |-> ch, t |-> now, seen |-> {}]]
                /\ last' = last
    /\ UNCHANGED <<now, db, tx, hist>>

BeginVote(c, u, p, ch) == Begin(c, "vote", u, p, ch)

BeginRemoveVote(c, u, p) == Begin(c, "remove_vote", u, p, "none")

\* SELECT id, vote_type FROM votes WHERE user_id = ? AND poll_id = ?, and the
\* branch on its result
SelectVoteStep(c) ==
    LET r == conns[c]
        existing == SelectVote(db, r.user, r.poll)
    IN  /\ r.pc = "select_vote"
        /\ IF r.op = "vote" /\ existing # {}
              /\ (CHOOSE v \in existing : TRUE).vote_type = r.choice
           THEN Finish(c, BuildVoteResponse("Zaten bu sekilde oy vermissiniz"), "same")
           ELSE IF r.op = "remove_vote" /\ existing = {}
           THEN Finish(c, "NotFound", "novote")
           ELSE /\ conns' = [conns EXCEPT ![c].pc = "write_vote", ![c].seen = existing]
                /\ last' = last
        /\ UNCHANGED <<now, db, tx, hist, begun>>

\* the statement on the votes table on a connection in autocommit mode: the
\* write is committed as soon as it is made
WriteVoteStepAutocommit(c) ==
    LET r == conns[c]
        ev == CHOOSE v \in r.seen : TRUE
        d == IF r.seen = {} THEN InsertVote(db, r.user, r.poll, r.choice)
             ELSE IF r.op = "vote" THEN UpdateVoteType(db, ev.id, r.choice)
             ELSE DeleteVote(db, ev.id)
    IN  /\ r.pc = "write_vote"
        /\ tx.owner = 0
        /\ r.seen = {} => (VoteUniqueOk(db, r.user, r.poll) /\ db.seq.votes < MaxVoteRows)
        /\ db' = d
        /\ tx' = [owner |-> c, db |-> d]
        /\ conns' = [conns EXCEPT ![c].pc = "write_counter"]
        /\ UNCHANGED <<now, last, hist, begun>>

\* the statement on the votes table; it opens the transaction on the tables
\* committed by then
WriteVoteStep(c) ==
    LET r == conns[c]
    IN  /\ r.pc = "write_vote"
        /\ tx.owner = 0
        /\ IF r.seen # {}
           THEN LET ev == CHOOSE v \in r.seen : TRUE
                IN  /\ tx' = [owner |-> c,
                              db |-> IF r.op = "vote"
                                     THEN UpdateVoteType(db, ev.id, r.choice)
                                     ELSE DeleteVote(db, ev.id)]
                    /\ conns' = [conns EXCEPT ![c].pc = "write_counter"]
                    /\ last' = last
           ELSE IF VoteUniqueOk(db, r.user, r.poll)
           THEN /\ db.seq.votes < MaxVoteRows
                /\ tx' = [owner |-> c, db |-> InsertVote(db, r.user, r.poll, r.choice)]
                /\ conns' = [conns EXCEPT ![c].pc = "write_counter"]
                /\ last' = last
           \* sqlite3.IntegrityError: get_db rolls back and re-raises
           ELSE /\ tx' = NoTx
                /\ Finish(c, "ServerError", "unique")
        /\ UNCHANGED <<now, db, hist, begun>>

\* the write lock is held by another connection until the busy timeout ends:
\* sqlite3.OperationalError, get_db rolls back and re-raises
LockedStep(c) ==
    /\ conns[c].pc = "write_vote"
    /\ tx.owner \notin {0, c}
    /\ Finish(c, "ServerError", "locked")
    /\ UNCHANGED <<now, db, tx, hist, begun>>

\* the UPDATE of the poll's counters, inside the transaction
WriteCounterStep(c) ==
    LET r == conns[c]
    IN  /\ r.pc = "write_counter"
        /\ tx.owner = c
        /\ tx' = [tx EXCEPT !.db =
                    IF r.op = "remove_vote"
                    THEN DecVotes(@, r.poll, (CHOOSE v \in r.seen : TRUE).vote_type)
                    ELSE IF r.seen # {} THEN FlipVotes(@, r.poll, r.choice)
                    ELSE IncVotes(@, r.poll, r.choice)]
        /\ conns' = [conns EXCEPT ![c].pc = "commit"]
        /\ UNCHANGED <<now, db, last, hist, begun>>

\* db.commit() and the response built after it
CommitStep(c) ==
    LET r == conns[c]
    IN  /\ r.pc = "commit"
        /\ tx.owner = c
        /\ db' = tx.db
        /\ tx' = NoTx
        /\ IF r.op = "remove_vote" THEN Finish(c, "Oyunuz geri cekildi", "removed")
           ELSE IF r.seen # {}
           THEN Finish(c, BuildVoteResponse("Oyunuz degistirildi"), "changed")
           ELSE Finish(c, BuildVoteResponse("Oyunuz kaydedildi"), "saved")
        /\ UNCHANGED <<now, hist, begun>>

NextConc ==
    \/ now <= LastCreateTick /\ CreatePoll(EditorId, 1, TallyPolls)
    \/ \E c \in Conns, u \in Users, p \in PollIds, ch \in Choices : BeginVote(c, u, p, ch)
    \/ \E c \in Conns, u \in Users, p \in PollIds : BeginRemoveVote(c, u, p)
    \/ \E c \in Conns : SelectVoteStep(c)
    \/ \E c \in Conns : WriteVoteStep(c)
    \/ \E c \in Conns : LockedStep(c)
    \/ \E c \in Conns : WriteCounterStep(c)
    \/ \E c \in Conns : CommitStep(c)

SpecConc == Init /\ [][NextConc]_vars

\* ------------------------------------------------------------ properties
Other(c) == IF c = "gercek" THEN "efsane" ELSE "gercek"

\* the row of poll p in database d
PollRow(d, p) == CHOOSE r \in d.polls : r.id = p

\* the counter of poll row r that belongs to choice c
VotesOf(r, c) == IF c = "gercek" THEN r.gercek_votes ELSE r.efsane_votes

\* poll p exists and the handlers' expiry test lets a request at `now` through
ActivePoll(p) == \E r \in SelectPoll(db, p) : ~IsExpired(r, now)

\* user u holds a vote for choice c on poll p
HasVote(d, u, p, c) ==
    \E v \in d.votes : v.user_id = u /\ v.poll_id = p /\ v.vote_type = c

HasAnyVote(d, u, p) == SelectVote(d, u, p) # {}

\* C1: after any sequence of vote and remove_vote requests handled one at a
\* time, both vote counters of every poll are non-negative.
C1_CountersNonNegative ==
    \A r \in db.polls : r.gercek_votes >= 0 /\ r.efsane_votes >= 0

\* a vote has been cast and retracted again, the counters back at zero
C1_Witness ==
    /\ last.op = "remove_vote" /\ last.did = "removed"
    /\ \E r \in db.polls : r.gercek_votes + r.efsane_votes = 0

\* C4: a vote by a user whose vote on an active poll has the other choice
\* flips the stored choice of the same row, adds 1 to the new choice's
\* counter and takes 1 from the old one's; the total and the number of vote
\* rows stay as they were.
C4_FlipPreservesTotal ==
    [][\A u \in Users, p \in PollIds, c \in Choices :
        (Vote(u, p, c) /\ ActivePoll(p) /\ HasVote(db, u, p, Other(c))) =>
            LET r == PollRow(db, p)
                r2 == PollRow(db', p)
            IN  /\ VotesOf(r2, c) = VotesOf(r, c) + 1
                /\ VotesOf(r2, Other(c)) = VotesOf(r, Other(c)) - 1
                /\ r2.gercek_votes + r2.efsane_votes = r.gercek_votes + r.efsane_votes
                /\ Cardinality(db'.votes) = Cardinality(db.votes)
                /\ {v.id : v \in db'.votes} = {v.id : v \in db.votes}
                /\ HasVote(db', u, p, c)
                /\ ~HasVote(db', u, p, Other(c))]_vars

\* a flip has happened on a poll on which two users hold a vote
C4_Witness ==
    /\ last.op = "vote" /\ last.did = "changed"
    /\ \E v, w \in db.votes : v.poll_id = w.poll_id /\ v.user_id # w.user_id

\* the outcome the caller of vote(u, p, c) gets in database d
VoteResult(d, u, p, c) == vote(d, u, p, c, now).res

\* C5: a vote repeating the choice the user already holds on an active poll
\* changes no row and no counter, and the caller can tell its result from
\* that of a first vote and from that of a changed vote.
C5_SameVoteDistinguishable ==
    [][\A u \in Users, p \in PollIds, c \in Choices :
        (Vote(u, p, c) /\ ActivePoll(p) /\ HasVote(db, u, p, c)) =>
            LET ev == CHOOSE v \in SelectVote(db, u, p) : TRUE
            IN  /\ db' = db
                /\ last'.res # VoteResult(DeleteVote(db, ev.id), u, p, c)
                /\ last'.res # VoteResult(UpdateVoteType(db, ev.id, Other(c)), u, p, c)]_vars

\* C6: remove_vote of a user holding a vote on an active poll deletes that
\* row and takes exactly 1 from the counter of the stored choice, leaving the
\* other counter and every other row alone; without a vote it fails with
\* NotFound and changes nothing.
C6_RetractDecrementsStoredChoice ==
    [][\A u \in Users, p \in PollIds :
        (RemoveVote(u, p) /\ ActivePoll(p)) =>
            IF HasAnyVote(db, u, p)
            THEN LET ev == CHOOSE v \in SelectVote(db, u, p) : TRUE
                     r == PollRow(db, p)
                     r2 == PollRow(db', p)
                 IN  /\ db'.votes = db.votes \ {ev}
                     /\ VotesOf(r2, ev.vote_type) = VotesOf(r, ev.vote_type) - 1
                     /\ VotesOf(r2, Other(ev.vote_type)) = VotesOf(r, Other(ev.vote_type))
                     /\ db'.polls \ {r2} = db.polls \ {r}
                     /\ last'.res \notin {"NotFound", "Expired", "ServerError"}
            ELSE /\ last'.res = "NotFound"
                 /\ db' = db]_vars

\* a vote was retracted while another user's vote on the poll stays counted
C6_Witness ==
    /\ last.op = "remove_vote" /\ last.did = "removed"
    /\ db.votes # {}

\* C7: every poll read reports gercek_percentage 50 when there are no votes
\* and round(100 * g / (g + e)) otherwise, and efsane_percentage as
\* 100 - gercek_percentage.
C7_PercentageAsSpecified ==
    (last.op = "get_poll" /\ last.res = "Poll") =>
        LET g == last.body.gercek_votes
            e == last.body.efsane_votes
        IN  /\ last.body.gercek_percentage =
                    (IF g + e = 0 THEN 50 ELSE Round(100 * g, g + e))
            /\ last.body.efsane_percentage = 100 - last.body.gercek_percentage

\* the create_poll requests of user u that succeeded on the given day
SucceededOn(u, day) == Cardinality({h \in hist : h.user = u /\ h.day = day})

\* C8: a user who is no editor and whose create_poll has succeeded
\* DAILY_POLL_LIMIT times today gets QuotaExceeded and no row is written;
\* the editor's create_poll never gets QuotaExceeded.
C8_QuotaEnforced ==
    [][\A u \in Users, cat \in CategoryInputs :
        CreatePoll(u, cat, MaxPolls) =>
            /\ (~IsEditor(u) /\ SucceededOn(u, DateOf(now)) >= DAILY_POLL_LIMIT)
                   => (last'.res = "QuotaExceeded" /\ db' = db)
            /\ IsEditor(u) => last'.res # "QuotaExceeded"]_vars

\* a user was refused after creating DAILY_POLL_LIMIT polls today
C8_Witness ==
    /\ last.op = "create_poll" /\ last.res = "QuotaExceeded"
    /\ \E u \in Users : ~IsEditor(u) /\ SucceededOn(u, DateOf(now)) = DAILY_POLL_LIMIT

\* C9: the quota is per date: a user who is no editor and has created
\* nothing today is told DAILY_POLL_LIMIT remaining polls and has create_poll
\* accepted, whatever the rows of earlier dates say.
C9_QuotaPerDate ==
    [][\A u \in Users :
        (~IsEditor(u) /\ SucceededOn(u, DateOf(now)) = 0) =>
            /\ GetMyPollLimit(u) => last'.body.remaining = DAILY_POLL_LIMIT
            /\ CreatePoll(u, 1, MaxPolls) => last'.res = "Created"]_vars

\* the day after using the whole allowance the user has created a poll again
C9_Witness ==
    /\ last.op = "create_poll" /\ last.res = "Created"
    /\ \E u \in Users :
          /\ ~IsEditor(u)
          /\ SucceededOn(u, DateOf(now)) = 1
          /\ SucceededOn(u, DateOf(now) - 1) = DAILY_POLL_LIMIT

\* C10: on a poll whose expires_at lies before the instant of the request,
\* vote, remove_vote, like_poll and create_comment fail with Expired and
\* leave every table as it was.
C10_ExpiredRejected ==
    [][\A u \in Users, p \in PollIds :
        (\E r \in db.polls : r.id = p /\ r.expires_at < now) =>
            /\ \A c \in Choices : Vote(u, p, c) => (last'.res = "Expired" /\ db' = db)
            /\ RemoveVote(u, p) => (last'.res = "Expired" /\ db' = db)
            /\ LikePoll(u, p) => (last'.res = "Expired" /\ db' = db)
            /\ CreateComment(u, p) => (last'.res = "Expired" /\ db' = db)]_vars

\* a request was refused on an expired poll that has votes, a like and a comment
C10_Witness ==
    /\ last.res = "Expired"
    /\ \E r \in db.polls :
          /\ r.expires_at < now
          /\ r.gercek_votes + r.efsane_votes > 0
          /\ r.likes_count > 0
          /\ r.comments_count > 0

\* the vote rows of poll row r that hold choice c
RowsOf(d, r, c) == {v \in d.votes : v.poll_id = r.id /\ v.vote_type = c}

\* C2: however two vote requests of one user on one poll interleave
\* statement by statement, no counter becomes negative and, once no request
\* is in flight, each counter equals the number of vote rows of its choice.
C2_InterleavedTallyConsistent ==
    /\ \A r \in db.polls : r.gercek_votes >= 0 /\ r.efsane_votes >= 0
    /\ Quiet => \A r \in db.polls, c \in Choices :
                    VotesOf(r, c) = Cardinality(RowsOf(db, r, c))

\* no two vote rows of one user on one poll
VotesUnique(d) ==
    \A v, w \in d.votes : (v.user_id = w.user_id /\ v.poll_id = w.poll_id) => v = w

\* C3: a user never has two vote rows on a poll, committed or not.  A first
\* vote whose INSERT meets a row that another request inserted after this
\* one's SELECT fails and commits nothing, as does one that cannot get the
\* write lock; the first vote that commits adds its one row and adds exactly
\* 1 to the counter of its choice.
C3_UniqueVoteBackstop ==
    /\ [](VotesUnique(db) /\ VotesUnique(tx.db))
    /\ [][\A c \in Conns :
            LET r == conns[c]
            IN  /\ (WriteVoteStep(c) /\ r.op = "vote" /\ r.seen = {}
                        /\ HasAnyVote(db, r.user, r.poll))
                   => (db' = db /\ tx' = NoTx /\ conns'[c] = Idle
                        /\ last'.res = "ServerError")
                /\ LockedStep(c) => (db' = db /\ tx' = tx /\ conns'[c] = Idle
                                        /\ last'.res = "ServerError")
                /\ (CommitStep(c) /\ r.op = "vote" /\ r.seen = {})
                   => /\ Cardinality(db'.votes) = Cardinality(db.votes) + 1
                      /\ HasVote(db', r.user, r.poll, r.choice)
                      /\ VotesOf(PollRow(db', r.poll), r.choice)
                            = VotesOf(PollRow(db, r.poll), r.choice) + 1
                      /\ VotesOf(PollRow(db', r.poll), Other(r.choice))
                            = VotesOf(PollRow(db, r.poll), Other(r.choice))]_vars

\* of two first votes that both saw no row, the second one's INSERT has just
\* failed: one row, counted once
C3_Witness ==
    /\ last.op = "vote" /\ last.did = "unique"
    /\ Quiet
    /\ Cardinality(db.votes) = 1
    /\ \E r \in db.polls : r.gercek_votes + r.efsane_votes = 1

\* ------------------------------------------------------- expiry, as derived
\* (julianday(p.expires_at) - julianday(?)) * 86400 AS seconds_left
seconds_left(r, t) == r.expires_at - t

\* PollResponse.check_expired: seconds_left <= 0
check_expired(s) == s <= 0

\* the filter of the poll listing: p.expires_at > ?
ListingFilter(r, t) == r.expires_at > t

\* C11: a poll is active exactly when now < expires_at: from the instant
\* now = expires_at on, vote, like_poll and create_comment fail with Expired
\* and write nothing, so that whenever one of them is let through the poll's
\* derived is_expired is false and the poll passes the listing filter.
C11_ActiveExactlyBeforeExpiry ==
    [][\A u \in Users, p \in PollIds : \A r \in SelectPoll(db, p) :
        LET Gated(A) ==
                /\ (A /\ now >= r.expires_at) => (last'.res = "Expired" /\ db' = db)
                /\ (A /\ last'.res # "Expired")
                       => (~check_expired(seconds_left(r, now)) /\ ListingFilter(r, now))
        IN  /\ \A c \in Choices : Gated(Vote(u, p, c))
            /\ Gated(LikePoll(u, p))
            /\ Gated(CreateComment(u, p))]_vars

\* ------------------------------------------------------------------ likes
\* the like rows a sequence of like and unlike requests may insert
LikeSeqMax == 3

\* DELETE FROM likes WHERE id = ?
DeleteLike(d, id) == [d EXCEPT !.likes = {l \in @ : l.id # id}]

\* UPDATE polls SET likes_count = likes_count - 1 WHERE id = ?
DecLikes(d, p) ==
    [d EXCEPT !.polls = {IF r.id = p THEN [r EXCEPT !.likes_count = @ - 1] ELSE r
                         : r \in @}]

\* unlike_poll without the "Begeni var mi?" check: the DELETE matches no row
\* and the counter is decremented all the same
unlike_poll_unchecked(d, u, p) ==
    LET like == SelectLike(d, u, p)
        d1 == IF like = {} THEN d ELSE DeleteLike(d, (CHOOSE l \in like : TRUE).id)
    IN  Out(DecLikes(d1, p), "Begeni kaldirildi", "unliked")

\* DELETE /users/like/{poll_id}
unlike_poll(d, u, p) ==
    LET like == SelectLike(d, u, p)
    IN  IF like = {} THEN Out(d, "NotFound", "none")
        ELSE Out(DecLikes(DeleteLike(d, (CHOOSE l \in like : TRUE).id), p),
                 "Begeni kaldirildi", "unliked")

LikePollUpTo(u, p, maxRows) ==
    LET o == like_poll(db, u, p, now)
    IN  /\ o.did = "liked" => db.seq.likes < maxRows
        /\ db' = o.db
        /\ last' = Response("like_poll", o.res, o.did, NoBody)
        /\ UNCHANGED <<now, tx, conns, hist, begun>>

UnlikePoll(u, p) ==
    LET o == unlike_poll(db, u, p)
    IN  /\ db' = o.db
        /\ last' = Response("unlike_poll", o.res, o.did, NoBody)
        /\ UNCHANGED <<now, tx, conns, hist, begun>>

\* likes: polls liked and unliked, one request at a time
NextLike ==
    \/ Tick
    \/ now <= LastCreateTick /\ CreatePoll(EditorId, 1, TallyPolls)
    \/ \E u \in Users, p \in PollIds : LikePollUpTo(u, p, LikeSeqMax)
    \/ \E u \in Users, p \in PollIds : UnlikePoll(u, p)

SpecLike == Init /\ [][NextLike]_vars

\* the like rows of poll p
LikesOf(d, p) == {l \in d.likes : l.poll_id = p}

\* C12: with requests handled one at a time, like_poll on an active poll the
\* user already likes fails with AlreadyLiked and unlike_poll of a poll the
\* user does not like fails with NotFound, both writing nothing; a successful
\* like_poll inserts exactly one like row and adds 1 to likes_count, a
\* successful unlike_poll deletes exactly the user's row and takes 1 from
\* likes_count; so likes_count always equals the number of like rows of the
\* poll and is never negative.
C12_LikesCounted ==
    /\ [](\A r \in db.polls :
            r.likes_count = Cardinality(LikesOf(db, r.id)) /\ r.likes_count >= 0)
    /\ [][\A u \in Users, p \in PollIds :
            LET mine == SelectLike(db, u, p)
                active == \E r \in SelectPoll(db, p) : now < r.expires_at
            IN  /\ (LikePollUpTo(u, p, LikeSeqMax) /\ active) =>
                     IF mine # {}
                     THEN last'.res = "AlreadyLiked" /\ db' = db
                     ELSE /\ last'.res \notin {"AlreadyLiked", "NotFound", "Expired",
                                               "ServerError"}
                          /\ db.likes \subseteq db'.likes
                          /\ Cardinality(db'.likes \ db.likes) = 1
                          /\ \A l \in db'.likes \ db.likes : l.user_id = u /\ l.poll_id = p
                          /\ PollRow(db', p).likes_count = PollRow(db, p).likes_count + 1
                          /\ db'.polls \ {PollRow(db', p)} = db.polls \ {PollRow(db, p)}
                /\ UnlikePoll(u, p) =>
                     IF mine = {}
                     THEN last'.res = "NotFound" /\ db' = db
                     ELSE /\ last'.res \notin {"NotFound", "ServerError"}
                          /\ db'.likes = db.likes \ mine
                          /\ Cardinality(mine) = 1
                          /\ PollRow(db', p).likes_count = PollRow(db, p).likes_count - 1
                          /\ db'.polls \ {PollRow(db', p)} = db.polls \ {PollRow(db, p)}]_vars

\* a like was taken back while another user's like on the poll stays counted
C12_Witness ==
    /\ last.op = "unlike_poll" /\ last.did = "unliked"
    /\ \E r \in db.polls : r.likes_count = 1 /\ LikesOf(db, r.id) # {}
    /\ db.seq.likes = LikeSeqMax

\* ------------------------------------------------ a request failing part-way
\* an exception after the transaction was opened: get_db calls
\* conn.rollback() and re-raises; the writes of the transaction are dropped
RollbackStep(c) ==
    LET r == conns[c]
    IN  /\ r.pc \in {"write_counter", "commit"}
        /\ tx.owner = c
        /\ tx' = NoTx
        /\ Finish(c, "ServerError",
                  IF r.op = "vote" /\ r.seen # {} THEN "flip_rolled_back"
                  ELSE "rolled_back")
        /\ UNCHANGED <<now, db, hist, begun>>

\* vote requests statement by statement, any of which may fail part-way
NextAtomic ==
    \/ now <= LastCreateTick /\ CreatePoll(EditorId, 1, TallyPolls)
    \/ \E c \in Conns, u \in Users, p \in PollIds, ch \in Choices : BeginVote(c, u, p, ch)
    \/ \E c \in Conns, u \in Users, p \in PollIds : BeginRemoveVote(c, u, p)
    \/ \E c \in Conns : SelectVoteStep(c)
    \/ \E c \in Conns : WriteVoteStep(c)
    \/ \E c \in Conns : LockedStep(c)
    \/ \E c \in Conns : WriteCounterStep(c)
    \/ \E c \in Conns : RollbackStep(c)
    \/ \E c \in Conns : CommitStep(c)

SpecAtomic == Init /\ [][NextAtomic]_vars

\* a vote row of poll p has another choice in d2 than in d1
ChoiceFlipped(d1, d2, p) ==
    \E v \in d1.votes, w \in d2.votes :
        v.id = w.id /\ v.poll_id = p /\ v.vote_type # w.vote_type

\* C13: a vote flip is atomic for every observer.  The tables other requests
\* read (db) change in no step of a flip but its commit, also not when the
\* request fails after its first or second write; the commit adds 1 to the
\* counter of the new choice and takes 1 from the other; and in every step
\* in which a vote row's choice is seen to change, both counters of its poll
\* change with it, one up and one down.
C13_FlipAtomic ==
    [][/\ \A c \in Conns :
            LET r == conns[c]
                flip == r.op = "vote" /\ r.seen # {}
            IN  /\ (flip /\ (WriteVoteStep(c) \/ LockedStep(c) \/ WriteCounterStep(c)
                                \/ RollbackStep(c)))
                       => db' = db
                /\ (flip /\ CommitStep(c)) =>
                       /\ VotesOf(PollRow(db', r.poll), r.choice)
                             = VotesOf(PollRow(db, r.poll), r.choice) + 1
                       /\ VotesOf(PollRow(db', r.poll), Other(r.choice))
                             = VotesOf(PollRow(db, r.poll), Other(r.choice)) - 1
       /\ \A p \in PollIds :
            ChoiceFlipped(db, db', p) =>
                \E ch \in Choices :
                    /\ VotesOf(PollRow(db', p), ch) = VotesOf(PollRow(db, p), ch) + 1
                    /\ VotesOf(PollRow(db', p), Other(ch))
                          = VotesOf(PollRow(db, p), Other(ch)) - 1
                    /\ HasVote(db', (CHOOSE v \in db'.votes \ db.votes : TRUE).user_id,
                               p, ch)]_vars

\* a flip failed after its writes and left the row and the counters of the
\* earlier vote as they were
C13_Witness ==
    /\ last.op = "vote" /\ last.did = "flip_rolled_back"
    /\ Quiet
    /\ \E v \in db.votes :
          /\ VotesOf(PollRow(db, v.poll_id), v.vote_type) = 1
          /\ VotesOf(PollRow(db, v.poll_id), Other(v.vote_type)) = 0

\* ------------------------------------- create_poll, statement by statement
CreateLastTick == 2    \* last instant reached where polls are created by steps

\* the clock read and the SELECT of check_daily_limit, then the SELECT of the
\* category; both read the committed tables
BeginCreate(c, u, cat) ==
    /\ conns[c].pc = "idle"
    /\ begun < MaxRequests
    /\ begun' = begun + 1
    /\ IF ~IsEditor(u) /\ check_daily_limit(db, u, now) <= 0
       THEN /\ conns' = conns
            /\ last' = Response("create_poll", "QuotaExceeded", "none", NoBody)
       ELSE IF cat \notin Categories
       THEN /\ conns' = conns
            /\ last' = Response("create_poll", "InvalidCategory", "none", NoBody)
       ELSE /\ conns' = [conns EXCEPT ![c] =
                    [pc |-> "read_expiry", op |-> "create_poll", user |-> u,
                     poll |-> 0, choice |-> "none", t |-> now, seen |-> {},
                     category |-> cat, expires_at |-> 0]]
            /\ last' = last
    /\ UNCHANGED <<now, db, tx, hist>>

\* expires_at = datetime.now() + timedelta(days=POLL_DURATION_DAYS)
ReadExpiryStep(c) ==
    /\ conns[c].pc = "read_expiry"
    /\ conns' = [conns EXCEPT ![c].pc = "insert_poll",
                              ![c].expires_at = PlusDays(now, POLL_DURATION_DAYS)]
    /\ UNCHANGED <<now, db, tx, last, hist, begun>>

\* created_at = datetime.now() and the INSERT of the poll, which opens the
\* transaction on the tables committed by then
InsertPollStep(c) ==
    LET r == conns[c]
    IN  /\ r.pc = "insert_poll"
        /\ tx.owner = 0
        /\ tx' = [owner |-> c,
                  db |-> InsertPoll(db, r.user, r.category, r.expires_at, now)]
        /\ conns' = [conns EXCEPT ![c].pc = IF IsEditor(r.user) THEN "commit_poll"
                                            ELSE "increment",
                                  ![c].poll = db.seq.polls + 1,
                                  ![c].t = now]
        /\ UNCHANGED <<now, db, last, hist, begun>>

\* the write lock is held by another connection until the busy timeout ends
CreateLockedStep(c) ==
    /\ conns[c].pc = "insert_poll"
    /\ tx.owner \notin {0, c}
    /\ Finish(c, "ServerError", "locked")
    /\ UNCHANGED <<now, db, tx, hist, begun>>

\* increment_daily_count, inside the transaction
IncrementStep(c) ==
    LET r == conns[c]
    IN  /\ r.pc = "increment"
        /\ tx.owner = c
        /\ tx' = [tx EXCEPT !.db = increment_daily_count(@, r.user, now)]
        /\ conns' = [conns EXCEPT ![c].pc = "commit_poll", ![c].t = now]
        /\ UNCHANGED <<now, db, last, hist, begun>>

\* an exception handler that commits what the transaction holds
UpsertFailStepCommitting(c) ==
    /\ conns[c].pc = "increment"
    /\ tx.owner = c
    /\ db' = tx.db
    /\ tx' = NoTx
    /\ Finish(c, "ServerError", "upsert_failed")
    /\ UNCHANGED <<now, hist, begun>>

\* the upsert of increment_daily_count raises: get_db calls conn.rollback()
\* and re-raises
UpsertFailStep(c) ==
    /\ conns[c].pc = "increment"
    /\ tx.owner = c
    /\ tx' = NoTx
    /\ Finish(c, "ServerError", "upsert_failed")
    /\ UNCHANGED <<now, db, hist, begun>>

\* db.commit() and the response
CommitPollStep(c) ==
    LET r == conns[c]
    IN  /\ r.pc = "commit_poll"
        /\ tx.owner = c
        /\ db' = tx.db
        /\ tx' = NoTx
        /\ hist' = hist \cup {[poll |-> r.poll, user |-> r.user, day |-> DateOf(r.t)]}
        /\ Finish(c, "Created", "created")
        /\ UNCHANGED <<now, begun>>

NextCreate ==
    \/ TickUntil(CreateLastTick)
    \/ \E c \in Conns, u \in Users, cat \in CategoryInputs : BeginCreate(c, u, cat)
    \/ \E c \in Conns : ReadExpiryStep(c)
    \/ \E c \in Conns : InsertPollStep(c)
    \/ \E c \in Conns : CreateLockedStep(c)
    \/ \E c \in Conns : IncrementStep(c)
    \/ \E c \in Conns : UpsertFailStep(c)
    \/ \E c \in Conns : CommitPollStep(c)

SpecCreate == Init /\ [][NextCreate]_vars

RECURSIVE SumCounts(_)
\* the sum of poll_count over a set of daily_poll_limits rows
SumCounts(S) ==
    IF S = {} THEN 0
    ELSE LET l == CHOOSE x \in S : TRUE
         IN  l.poll_count + SumCounts(S \ {l})

\* the creations recorded for user u, over all dates
Recorded(d, u) == SumCounts({l \in d.limits : l.user_id = u})

\* the poll rows of user u
PollsBy(d, u) == {r \in d.polls : r.user_id = u}

\* C14: for a user who is no editor, create_poll commits the poll row and the
\* increment of the quota counter together or not at all: in every committed
\* state the user has as many poll rows as creations recorded; a request
\* whose upsert fails commits nothing, no step before the commit changes the
\* committed tables, and the commit adds one poll row and one recorded
\* creation.
C14_PollAndQuotaTogether ==
    /\ [](\A u \in Users :
            ~IsEditor(u) => Cardinality(PollsBy(db, u)) = Recorded(db, u))
    /\ [][\A c \in Conns :
            LET u == conns[c].user
            IN  /\ UpsertFailStep(c) => (db' = db /\ tx' = NoTx /\ conns'[c] = Idle)
                /\ (InsertPollStep(c) \/ IncrementStep(c) \/ CreateLockedStep(c))
                       => db' = db
                /\ (CommitPollStep(c) /\ ~IsEditor(u)) =>
                       /\ Cardinality(PollsBy(db', u)) = Cardinality(PollsBy(db, u)) + 1
                       /\ Recorded(db', u) = Recorded(db, u) + 1]_vars

\* the upsert of a user's second creation failed: the first one stays
\* committed with its count, of the second one nothing
C14_Witness ==
    /\ last.op = "create_poll" /\ last.did = "upsert_failed"
    /\ Quiet
    /\ \E u \in Users :
          /\ ~IsEditor(u)
          /\ Cardinality(PollsBy(db, u)) = 1
          /\ Recorded(db, u) = 1
          /\ db.seq.polls = 1

\* the polls user u created on the given day, by their created_at
CreatedOn(d, u, day) == {r \in PollsBy(d, u) : DateOf(r.created_at) = day}

\* C15: however create_poll requests of one user who is no editor
\* interleave, also when two of them read the remaining quota before either
\* records its creation, the user never has more than DAILY_POLL_LIMIT polls
\* created on one date.
C15_QuotaHoldsInterleaved ==
    \A u \in Users, day \in 0..MaxDay :
        ~IsEditor(u) => Cardinality(CreatedOn(db, u, day)) <= DAILY_POLL_LIMIT

\* C16: the row a successful create_poll inserts has all four counters at 0
\* and an expires_at of exactly its created_at plus POLL_DURATION_DAYS,
\* whatever instants the clock reads of the request return.
C16_NewPollZeroedAndTimed ==
    [][\A u \in Users, cat \in CategoryInputs :
        (CreatePoll(u, cat, MaxPolls) /\ last'.did = "created") =>
            /\ Cardinality(db'.polls \ db.polls) = 1
            /\ \A r \in db'.polls \ db.polls :
                  /\ r.gercek_votes = 0 /\ r.efsane_votes = 0
                  /\ r.likes_count = 0 /\ r.comments_count = 0
                  /\ r.expires_at = PlusDays(r.created_at, POLL_DURATION_DAYS)]_vars

\* C17 as stated: create_poll naming a category that does not exist fails
\* with InvalidCategory and changes nothing.
C17_InvalidCategoryAlways ==
    [][\A u \in Users :
        CreatePoll(u, NumCategories + 1, MaxPolls) =>
            (last'.res = "InvalidCategory" /\ db' = db)]_vars

\* C17, amended: create_poll naming a category that does not exist creates no
\* poll row and creates or increments no quota counter; it fails with
\* InvalidCategory, unless the user is no editor and has no quota left, who
\* is refused with QuotaExceeded before the category is looked at.
C17_InvalidCategoryRejected ==
    [][\A u \in Users :
        CreatePoll(u, NumCategories + 1, MaxPolls) =>
            /\ db' = db
            /\ hist' = hist
            /\ last'.res = IF ~IsEditor(u) /\ check_daily_limit(db, u, now) <= 0
                           THEN "QuotaExceeded" ELSE "InvalidCategory"]_vars

\* a user with a creation counted today was refused for the category
C17_Witness ==
    /\ last.op = "create_poll" /\ last.res = "InvalidCategory"
    /\ \E l \in db.limits : l.poll_date = DateOf(now) /\ l.poll_count = 1
    /\ Cardinality(db.polls) = 1

\* the poll_count stored for (u, day), 0 when there is no row
CounterOf(d, u, day) ==
    LET result == SelectLimit(d, u, day)
    IN  IF result = {} THEN 0 ELSE (CHOOSE l \in result : TRUE).poll_count

\* C18: the counter stored for a user and a date equals the number of
\* create_poll requests that succeeded for that user, being no editor, on
\* that date: there is no row before the first one, which inserts it with 1,
\* and every later one adds 1; the editor's creations leave the counters
\* alone; and the remaining quota reported is
\* max(0, DAILY_POLL_LIMIT - counter).
C18_CounterCountsCreations ==
    /\ [](/\ \A l \in db.limits : ~IsEditor(l.user_id) /\ l.poll_count >= 1
          /\ \A u \in Users, day \in 0..MaxDay :
                ~IsEditor(u) => CounterOf(db, u, day) = SucceededOn(u, day)
          /\ \A l, m \in db.limits :
                (l.user_id = m.user_id /\ l.poll_date = m.poll_date) => l = m)
    /\ [][\A u \in Users :
            /\ \A cat \in CategoryInputs :
                 (CreatePoll(u, cat, MaxPolls) /\ last'.did = "created") =>
                    IF IsEditor(u) THEN db'.limits = db.limits
                    ELSE \E day \in 0..MaxDay :
                            /\ CounterOf(db', u, day) = CounterOf(db, u, day) + 1
                            /\ \A l \in db.limits :
                                  (l.user_id # u \/ l.poll_date # day) => l \in db'.limits
                            /\ Cardinality(db'.limits) =
                                  Cardinality(db.limits)
                                    + (IF CounterOf(db, u, day) = 0 THEN 1 ELSE 0)
            /\ GetMyPollLimit(u) =>
                 last'.body.remaining =
                    Max(0, DAILY_POLL_LIMIT - CounterOf(db, u, DateOf(now)))]_vars

\* a user is told that nothing remains after two creations counted today,
\* the editor's creation counted nowhere
C18_Witness ==
    /\ last.op = "my_limit" /\ last.body.remaining = 0
    /\ \E r \in db.polls : IsEditor(r.user_id)
    /\ \E l \in db.limits : l.poll_date = DateOf(now) /\ l.poll_count = DAILY_POLL_LIMIT

\* ------------------------------------------------------------ delete_poll
DeletePolls == 2       \* polls created where polls are deleted
DeleteChildRows == 2   \* vote, like and comment rows inserted there

\* a delete that also takes the poll back from its creator's counters
DeletePollRowRefunding(d, p) ==
    [d EXCEPT !.polls = {r \in @ : r.id # p},
              !.limits = {IF \E r \in d.polls : r.id = p /\ r.user_id = l.user_id
                          THEN [l EXCEPT !.poll_count = @ - 1] ELSE l : l \in @}]

\* DELETE FROM polls WHERE id = ?; the connection never turns foreign_keys
\* on and no REFERENCES clause has an ON DELETE action, so no other table is
\* touched
DeletePollRow(d, p) == [d EXCEPT !.polls = {r \in @ : r.id # p}]

\* delete_poll without the "Yetki kontrolu"
delete_poll_unchecked(d, u, p) ==
    IF SelectPoll(d, p) = {} THEN Out(d, "NotFound", "none")
    ELSE Out(DeletePollRow(d, p), "Anket basariyla silindi", "deleted")

\* DELETE /polls/{poll_id}
delete_poll(d, u, p) ==
    LET poll == SelectPoll(d, p)
    IN  IF poll = {} THEN Out(d, "NotFound", "none")
        ELSE IF (CHOOSE r \in poll : TRUE).user_id # u /\ ~IsEditor(u)
        THEN Out(d, "Forbidden", "none")
        ELSE Out(DeletePollRow(d, p), "Anket basariyla silindi", "deleted")

DeletePoll(u, p) ==
    LET o == delete_poll(db, u, p)
    IN  /\ Quiet
        /\ db' = o.db
        /\ last' = Response("delete_poll", o.res, o.did, NoBody)
        /\ UNCHANGED <<now, tx, conns, hist, begun>>

\* requests that insert a vote, like or comment row are made while fewer
\* than DeleteChildRows such rows have been inserted
FewRows == db.seq.votes + db.seq.likes + db.seq.comments < DeleteChildRows

\* polls created, voted on, liked, commented and deleted, one request at a time
NextDelete ==
    \/ now <= LastCreateTick /\ \E u \in Users : CreatePoll(u, 1, DeletePolls)
    \/ FewRows /\ \E u \in Users, p \in PollIds, c \in Choices : Vote(u, p, c)
    \/ FewRows /\ \E u \in Users, p \in PollIds : LikePoll(u, p)
    \/ FewRows /\ \E u \in Users, p \in PollIds : CreateComment(u, p)
    \/ \E u \in Users, p \in PollIds : DeletePoll(u, p)

SpecDelete == Init /\ [][NextDelete]_vars

\* C19: after a successful delete_poll no vote, like or comment row
\* references the deleted poll.
C19_NoRowsOfDeletedPoll ==
    [][\A u \in Users, p \in PollIds :
        (DeletePoll(u, p) /\ last'.did = "deleted") =>
            /\ \A v \in db'.votes : v.poll_id # p
            /\ \A l \in db'.likes : l.poll_id # p
            /\ \A k \in db'.comments : k.poll_id # p]_vars

\* C20: delete_poll of a poll that does not exist fails with NotFound and
\* delete_poll by a user who is neither the poll's creator nor an editor
\* fails with Forbidden, both leaving every poll row as it was; for the
\* creator and for the editor it removes that poll row and no other.
C20_DeleteAuthorised ==
    [][\A u \in Users, p \in PollIds :
        DeletePoll(u, p) =>
            IF \A r \in db.polls : r.id # p
            THEN last'.res = "NotFound" /\ db' = db
            ELSE IF PollRow(db, p).user_id # u /\ u # EditorId
            THEN last'.res = "Forbidden" /\ db' = db
            ELSE /\ last'.res \notin {"NotFound", "Forbidden", "ServerError"}
                 /\ db'.polls = db.polls \ {PollRow(db, p)}
                 /\ Cardinality(db'.polls) = Cardinality(db.polls) - 1]_vars

\* one of two polls was deleted, the other one is still there
C20_Witness ==
    /\ last.op = "delete_poll" /\ last.did = "deleted"
    /\ Cardinality(db.polls) = 1
    /\ Cardinality(hist) = DeletePolls

\* --------------------------------------------------------------- comments
CommentSeqMax == 2     \* comment rows inserted where comments are edited and deleted

\* the texts an update_comment request may carry
Contents == {"posted", "edited"}

\* SELECT ... FROM comments WHERE id = ? AND is_active = 1
SelectActiveComment(d, cid) == {k \in d.comments : k.id = cid /\ k.is_active = 1}

\* UPDATE comments SET content = ?, updated_at = ? WHERE id = ?
UpdateContent(d, cid, content) ==
    [d EXCEPT !.comments = {IF k.id = cid THEN [k EXCEPT !.content = content] ELSE k
                            : k \in @}]

\* UPDATE comments SET is_active = 0 WHERE id = ?
SoftDelete(d, cid) ==
    [d EXCEPT !.comments = {IF k.id = cid THEN [k EXCEPT !.is_active = 0] ELSE k
                            : k \in @}]

\* UPDATE polls SET comments_count = comments_count - 1 WHERE id = ?
DecComments(d, p) ==
    [d EXCEPT !.polls = {IF r.id = p THEN [r EXCEPT !.comments_count = @ - 1] ELSE r
                         : r \in @}]

\* PUT /comments/{comment_id}
update_comment(d, u, cid, content) ==
    LET comment == SelectActiveComment(d, cid)
    IN  IF comment = {} THEN Out(d, "NotFound", "none")
        ELSE IF (CHOOSE k \in comment : TRUE).user_id # u
        THEN Out(d, "Forbidden", "none")
        ELSE Out(UpdateContent(d, cid, content), BuildCommentResponse("Updated"),
                 "updated")

\* delete_comment selecting the comment whether it is active or not
delete_comment_any(d, u, cid) ==
    LET comment == {k \in d.comments : k.id = cid}
    IN  IF comment = {} THEN Out(d, "NotFound", "none")
        ELSE LET k == CHOOSE x \in comment : TRUE
             IN  IF k.user_id # u /\ ~IsEditor(u) THEN Out(d, "Forbidden", "none")
                 ELSE Out(DecComments(SoftDelete(d, cid), k.poll_id),
                          "Yorum silindi", "uncommented")

\* DELETE /comments/{comment_id}
delete_comment(d, u, cid) ==
    LET comment == SelectActiveComment(d, cid)
    IN  IF comment = {} THEN Out(d, "NotFound", "none")
        ELSE LET k == CHOOSE x \in comment : TRUE
             IN  IF k.user_id # u /\ ~IsEditor(u) THEN Out(d, "Forbidden", "none")
                 ELSE Out(DecComments(SoftDelete(d, cid), k.poll_id),
                          "Yorum silindi", "uncommented")

\* comment ids a request may name: every id ever given out and one never given
CommentIds == 1..(db.seq.comments + 1)

CreateCommentUpTo(u, p, maxRows) ==
    LET o == create_comment(db, u, p, now)
    IN  /\ o.did = "commented" => db.seq.comments < maxRows
        /\ db' = o.db
        /\ last' = Response("create_comment", o.res, o.did, NoBody)
        /\ UNCHANGED <<now, tx, conns, hist, begun>>

UpdateComment(u, cid, content) ==
    LET o == update_comment(db, u, cid, content)
    IN  /\ db' = o.db
        /\ last' = Response("update_comment", o.res, o.did, NoBody)
        /\ UNCHANGED <<now, tx, conns, hist, begun>>

DeleteComment(u, cid) ==
    LET o == delete_comment(db, u, cid)
    IN  /\ db' = o.db
        /\ last' = Response("delete_comment", o.res, o.did, NoBody)
        /\ UNCHANGED <<now, tx, conns, hist, begun>>

\* comments: posted, edited and deleted, one request at a time
NextComment ==
    \/ Tick
    \/ now <= LastCreateTick /\ CreatePoll(EditorId, 1, TallyPolls)
    \/ \E u \in Users, p \in PollIds : CreateCommentUpTo(u, p, CommentSeqMax)
    \/ \E u \in Users, cid \in CommentIds, content \in Contents :
          UpdateComment(u, cid, content)
    \/ \E u \in Users, cid \in CommentIds : DeleteComment(u, cid)

SpecComment == Init /\ [][NextComment]_vars

\* the comments of poll p that are not soft-deleted
ActiveComments(d, p) == {k \in d.comments : k.poll_id = p /\ k.is_active = 1}

\* C21: with create_comment and delete_comment requests handled one at a
\* time, comments_count of every poll equals the number of its comments with
\* is_active = 1 and is never negative; delete_comment of a comment that is
\* soft-deleted already fails with NotFound and writes nothing.
C21_CommentsCounted ==
    /\ [](\A r \in db.polls :
            /\ r.comments_count = Cardinality(ActiveComments(db, r.id))
            /\ r.comments_count >= 0)
    /\ [][\A u \in Users, cid \in CommentIds :
            (DeleteComment(u, cid)
                /\ \E k \in db.comments : k.id = cid /\ k.is_active = 0)
            => (last'.res = "NotFound" /\ db' = db)]_vars

\* a comment that was soft-deleted was named again and the request refused,
\* while another comment of the poll stays counted
C21_Witness ==
    /\ last.op = "delete_comment" /\ last.res = "NotFound"
    /\ \E k \in db.comments :
          /\ k.is_active = 0
          /\ PollRow(db, k.poll_id).comments_count = 1
          /\ ActiveComments(db, k.poll_id) # {}

\* C22: an active comment can be edited and deleted by its author and by
\* the editor and by nobody else: update_comment and delete_comment of a
\* user who is neither fail with Forbidden and leave the comment as it was,
\* and for the author and for the editor both are let through and do their
\* write.
C22_AuthorOrEditor ==
    [][\A u \in Users, cid \in CommentIds : \A k \in SelectActiveComment(db, cid) :
        LET allowed == k.user_id = u \/ IsEditor(u)
        IN  /\ \A content \in Contents :
                 UpdateComment(u, cid, content) =>
                    IF allowed
                    THEN /\ last'.res # "Forbidden"
                         /\ [k EXCEPT !.content = content] \in db'.comments
                    ELSE last'.res = "Forbidden" /\ db' = db
            /\ DeleteComment(u, cid) =>
                    IF allowed
                    THEN /\ last'.res # "Forbidden"
                         /\ [k EXCEPT !.is_active = 0] \in db'.comments
                    ELSE last'.res = "Forbidden" /\ db' = db]_vars

\* ------------------- unlike_poll and delete_comment, statement by statement
\* the SELECT of the like row that opens unlike_poll; it reads the committed
\* tables
BeginUnlike(c, u, p) ==
    /\ conns[c].pc = "idle"
    /\ begun < MaxRequests
    /\ begun' = begun + 1
    /\ IF SelectLike(db, u, p) = {}
       THEN /\ conns' = conns
            /\ last' = Response("unlike_poll", "NotFound", "none", NoBody)
       ELSE /\ conns' = [conns EXCEPT ![c] =
                    [pc |-> "undo_write", op |-> "unlike_poll", user |-> u,
                     poll |-> p, choice |-> "none", t |-> now,
                     seen |-> SelectLike(db, u, p)]]
            /\ last' = last
    /\ UNCHANGED <<now, db, tx, hist>>

\* the SELECT of the active comment that opens delete_comment, and the
\* "Yetki kontrolu"
BeginDeleteComment(c, u, cid) ==
    LET comment == SelectActiveComment(db, cid)
    IN  /\ conns[c].pc = "idle"
        /\ begun < MaxRequests
        /\ begun' = begun + 1
        /\ IF comment = {}
           THEN /\ conns' = conns
                /\ last' = Response("delete_comment", "NotFound", "none", NoBody)
           ELSE IF (CHOOSE k \in comment : TRUE).user_id # u /\ ~IsEditor(u)
           THEN /\ conns' = conns
                /\ last' = Response("delete_comment", "Forbidden", "none", NoBody)
           ELSE /\ conns' = [conns EXCEPT ![c] =
                        [pc |-> "undo_write", op |-> "delete_comment", user |-> u,
                         poll |-> (CHOOSE k \in comment : TRUE).poll_id,
                         choice |-> "none", t |-> now, seen |-> comment]]
                /\ last' = last
        /\ UNCHANGED <<now, db, tx, hist>>

\* DELETE FROM likes WHERE id = ? or UPDATE comments SET is_active = 0 WHERE
\* id = ?, on the row read before; it opens the transaction
UndoWriteStep(c) ==
    LET r == conns[c]
        id == (CHOOSE x \in r.seen : TRUE).id
    IN  /\ r.pc = "undo_write"
        /\ tx.owner = 0
        /\ tx' = [owner |-> c,
                  db |-> IF r.op = "unlike_poll" THEN DeleteLike(db, id)
                         ELSE SoftDelete(db, id)]
        /\ conns' = [conns EXCEPT ![c].pc = "undo_counter"]
        /\ UNCHANGED <<now, db, last, hist, begun>>

\* the write lock is held by another connection until the busy timeout ends
UndoLockedStep(c) ==
    /\ conns[c].pc = "undo_write"
    /\ tx.owner \notin {0, c}
    /\ Finish(c, "ServerError", "locked")
    /\ UNCHANGED <<now, db, tx, hist, begun>>

\* UPDATE polls SET likes_count = likes_count - 1, or comments_count - 1
UndoCounterStep(c) ==
    LET r == conns[c]
    IN  /\ r.pc = "undo_counter"
        /\ tx.owner = c
        /\ tx' = [tx EXCEPT !.db = IF r.op = "unlike_poll" THEN DecLikes(@, r.poll)
                                   ELSE DecComments(@, r.poll)]
        /\ conns' = [conns EXCEPT ![c].pc = "undo_commit"]
        /\ UNCHANGED <<now, db, last, hist, begun>>

\* db.commit() and the MessageResponse
UndoCommitStep(c) ==
    LET r == conns[c]
    IN  /\ r.pc = "undo_commit"
        /\ tx.owner = c
        /\ db' = tx.db
        /\ tx' = NoTx
        /\ IF r.op = "unlike_poll" THEN Finish(c, "Begeni kaldirildi", "unliked")
           ELSE Finish(c, "Yorum silindi", "uncommented")
        /\ UNCHANGED <<now, hist, begun>>

NextUndo ==
    \/ now <= LastCreateTick /\ CreatePoll(EditorId, 1, TallyPolls)
    \/ Quiet /\ \E u \in Users, p \in PollIds : LikePoll(u, p)
    \/ Quiet /\ \E u \in Users, p \in PollIds : CreateComment(u, p)
    \/ \E c \in Conns, u \in Users, p \in PollIds : BeginUnlike(c, u, p)
    \/ \E c \in Conns, u \in Users, cid \in CommentIds : BeginDeleteComment(c, u, cid)
    \/ \E c \in Conns : UndoWriteStep(c)
    \/ \E c \in Conns : UndoLockedStep(c)
    \/ \E c \in Conns : UndoCounterStep(c)
    \/ \E c \in Conns : UndoCommitStep(c)

SpecUndo == Init /\ [][NextUndo]_vars

\* C23: however unlike_poll requests of one user for one poll, or
\* delete_comment requests for one comment, interleave statement by
\* statement, the counter is taken from once: likes_count and comments_count
\* never drop below zero and stay equal to the number of like rows and of
\* active comments of the poll.
C23_UndoneOnce ==
    \A r \in db.polls :
        /\ r.likes_count >= 0 /\ r.comments_count >= 0
        /\ r.likes_count = Cardinality(LikesOf(db, r.id))
        /\ r.comments_count = Cardinality(ActiveComments(db, r.id))

\* ------------------------------------------ the standalone application
\* main.py keeps tables of the same columns and has handlers of its own.
MainSpan == 1          \* counters are followed while within -MainSpan..MainSpan

\* data.get("vote_type"): the choices a request may carry, one of them no
\* choice of the poll
MainChoices == Choices \cup {"belki"}

\* POST /api/polls of main.py: one clock read, no quota, no category lookup
main_create_poll(d, u, cat, t) ==
    Out(InsertPoll(d, u, cat, PlusDays(t, POLL_DURATION_DAYS), t),
        "Anket olusturuldu", "created")

\* POST /api/votes of main.py
main_vote(d, u, p, vote_type) ==
    LET existing == SelectVote(d, u, p)
    IN  IF existing # {}
        THEN LET ev == CHOOSE v \in existing : TRUE
                 d1 == UpdateVoteType(d, ev.id, vote_type)
             IN  IF ev.vote_type # vote_type
                 THEN Out(FlipVotes(d1, p, vote_type), "Oy kaydedildi", "changed")
                 ELSE Out(d1, "Oy kaydedildi", "same")
        ELSE Out(IncVotes(InsertVote(d, u, p, vote_type), p, vote_type),
                 "Oy kaydedildi", "saved")

\* POST /api/users/like/{poll_id} of main.py
main_like_poll(d, u, p) ==
    IF SelectLike(d, u, p) # {} THEN Out(d, "AlreadyLiked", "none")
    ELSE Out(IncLikes(InsertLike(d, u, p), p), "Begenildi", "liked")

\* DELETE FROM likes WHERE user_id = ? AND poll_id = ?
DeleteLikeOf(d, u, p) ==
    [d EXCEPT !.likes = {l \in @ : ~(l.user_id = u /\ l.poll_id = p)}]

\* DELETE /api/users/like/{poll_id} of main.py
main_unlike_poll(d, u, p) ==
    Out(DecLikes(DeleteLikeOf(d, u, p), p), "Begeni kaldirildi", "unliked")

\* every counter of every poll of d is within the span that is followed
WithinSpan(d) ==
    \A r \in d.polls :
        /\ r.gercek_votes \in -MainSpan..MainSpan
        /\ r.efsane_votes \in -MainSpan..MainSpan
        /\ r.likes_count \in -MainSpan..MainSpan

MainCreatePoll(u) ==
    LET o == main_create_poll(db, u, 1, now)
    IN  /\ db.seq.polls < TallyPolls
        /\ db' = o.db
        /\ last' = Response("main_create_poll", o.res, o.did, NoBody)
        /\ hist' = hist \cup {[poll |-> db.seq.polls + 1, user |-> u,
                               day |-> DateOf(now)]}
        /\ UNCHANGED <<now, tx, conns, begun>>

MainVote(u, p, vote_type) ==
    LET o == main_vote(db, u, p, vote_type)
    IN  /\ o.did = "saved" => db.seq.votes < MaxVoteRows
        /\ WithinSpan(o.db)
        /\ db' = o.db
        /\ last' = Response("main_vote", o.res, o.did, NoBody)
        /\ UNCHANGED <<now, tx, conns, hist, begun>>

MainLikePoll(u, p) ==
    LET o == main_like_poll(db, u, p)
    IN  /\ o.did = "liked" => db.seq.likes < MaxLikeRows
        /\ WithinSpan(o.db)
        /\ db' = o.db
        /\ last' = Response("main_like_poll", o.res, o.did, NoBody)
        /\ UNCHANGED <<now, tx, conns, hist, begun>>

MainUnlikePoll(u, p) ==
    LET o == main_unlike_poll(db, u, p)
    IN  /\ WithinSpan(o.db)
        /\ db' = o.db
        /\ last' = Response("main_unlike_poll", o.res, o.did, NoBody)
        /\ UNCHANGED <<now, tx, conns, hist, begun>>

NextMain ==
    \/ Tick
    \/ now <= LastCreateTick /\ \E u \in Users : MainCreatePoll(u)
    \/ \E u \in Users, p \in PollIds, vote_type \in MainChoices : MainVote(u, p, vote_type)
    \/ \E u \in Users, p \in PollIds : MainLikePoll(u, p)
    \/ \E u \in Users, p \in PollIds : MainUnlikePoll(u, p)

SpecMain == Init /\ [][NextMain]_vars

\* C24: in main.py, unlike_poll of a poll the user has not liked is refused
\* and leaves likes_count as it was, so likes_count of every poll is never
\* negative and equals the number of its like rows.
C24_MainUnlikeChecked ==
    /\ [](\A r \in db.polls :
            r.likes_count >= 0 /\ r.likes_count = Cardinality(LikesOf(db, r.id)))
    /\ [][\A u \in Users, p \in PollIds :
            (MainUnlikePoll(u, p) /\ SelectLike(db, u, p) = {})
            => (last'.did # "unliked" /\ db' = db)]_vars

\* C25: in main.py, a vote whose choice is neither 'gercek' nor 'efsane' is
\* refused as invalid input and writes nothing, so both counters of every
\* poll are never negative and equal the number of vote rows of their choice.
C25_MainChoiceValidated ==
    /\ [](\A r \in db.polls, c \in Choices :
            VotesOf(r, c) >= 0 /\ VotesOf(r, c) = Cardinality(RowsOf(db, r, c)))
    /\ [][\A u \in Users, p \in PollIds, vote_type \in MainChoices \ Choices :
            MainVote(u, p, vote_type)
            => (last'.res = "InvalidInput" /\ db' = db)]_vars

\* C26: in main.py, a vote or like on a poll that does not exist fails with
\* NotFound and one on a poll whose expires_at has passed fails with Expired;
\* neither inserts a row or changes a counter.
C26_MainPollChecked ==
    [][\A u \in Users, p \in PollIds :
        LET refusal == IF SelectPoll(db, p) = {} THEN "NotFound" ELSE "Expired"
        IN  (\A r \in SelectPoll(db, p) : r.expires_at < now) =>
               /\ \A vote_type \in Choices :
                     MainVote(u, p, vote_type) => (last'.res = refusal /\ db' = db)
               /\ MainLikePoll(u, p) => (last'.res = refusal /\ db' = db)]_vars

\* the outcomes that tell the caller the request failed
Errors ==
    {"NotFound", "Expired", "AlreadyLiked", "Forbidden", "QuotaExceeded",
     "InvalidCategory", "InvalidInput", "ServerError"}

\* C27: the caller of vote and of create_comment gets an error outcome only
\* when nothing was written: a request that committed a vote or comment row
\* and the counter change ends with a success result, the response it builds
\* having every field its response schema requires.
C27_ErrorMeansUnchanged ==
    [][\A u \in Users, p \in PollIds :
        /\ \A c \in Choices :
              (Vote(u, p, c) /\ last'.res \in Errors) => db' = db
        /\ (CreateComment(u, p) /\ last'.res \in Errors) => db' = db]_vars

\* C28: with vote and remove_vote requests handled one at a time, for every
\* poll gercek_votes equals the number of its vote rows with choice 'gercek'
\* and efsane_votes the number with choice 'efsane', so that the total equals
\* the number of users holding a vote on the poll.
C28_TallyEqualsRows ==
    \A r \in db.polls :
        /\ \A c \in Choices : VotesOf(r, c) = Cardinality(RowsOf(db, r, c))
        /\ r.gercek_votes + r.efsane_votes
              = Cardinality({u \in Users : HasAnyVote(db, u, r.id)})

\* after a flip the poll holds one vote of each choice, each counted once
C28_Witness ==
    /\ last.op = "vote" /\ last.did = "changed"
    /\ \E r \in db.polls :
          /\ r.gercek_votes = 1 /\ r.efsane_votes = 1
          /\ Cardinality(RowsOf(db, r, "gercek")) = 1
          /\ Cardinality(RowsOf(db, r, "efsane")) = 1

\* ----------------------------------------- every request of the routers
\* polls created by any user, then voted on, liked, commented, the votes,
\* likes and comments taken back and the polls deleted, while time passes
NextAll ==
    \/ Tick
    \/ now <= LastCreateTick /\ \E u \in Users : CreatePoll(u, 1, TallyPolls)
    \/ FewRows /\ \E u \in Users, p \in PollIds, c \in Choices : Vote(u, p, c)
    \/ \E u \in Users, p \in PollIds : RemoveVote(u, p)
    \/ FewRows /\ \E u \in Users, p \in PollIds : LikePoll(u, p)
    \/ \E u \in Users, p \in PollIds : UnlikePoll(u, p)
    \/ FewRows /\ \E u \in Users, p \in PollIds : CreateComment(u, p)
    \/ \E u \in Users, cid \in CommentIds : DeleteComment(u, cid)
    \/ \E u \in Users, p \in PollIds : DeletePoll(u, p)

SpecAll == Init /\ [][NextAll]_vars

\* C29: the clock not going backwards, from the moment expires_at < now
\* holds for a poll its gercek_votes and efsane_votes never change and its
\* likes_count and comments_count never grow, whatever requests follow;
\* likes_count is lowered by unlike_poll only and comments_count by
\* delete_comment only, which do not look at the expiry.
C29_ExpiredFrozen ==
    [][\A r \in db.polls : \A r2 \in db'.polls :
        (r.expires_at < now /\ r2.id = r.id) =>
            /\ r2.gercek_votes = r.gercek_votes
            /\ r2.efsane_votes = r.efsane_votes
            /\ r2.expires_at = r.expires_at
            /\ r2.likes_count <= r.likes_count
            /\ r2.comments_count <= r.comments_count
            /\ r2.likes_count < r.likes_count => last'.op = "unlike_poll"
            /\ r2.comments_count < r.comments_count => last'.op = "delete_comment"]_vars

\* a like was taken back from an expired poll that keeps its vote
C29_Witness ==
    /\ last.op = "unlike_poll" /\ last.did = "unliked"
    /\ \E r \in db.polls :
          /\ r.expires_at < now
          /\ r.likes_count = 0
          /\ r.gercek_votes + r.efsane_votes = 1

\* C30: delete_poll and every vote, like and comment request leave the rows
\* of daily_poll_limits as they are, so no counter ever decreases and a user
\* whose poll of today is deleted has the same remaining quota as before.
C30_QuotaUntouched ==
    /\ [][\A l \in db.limits : \E m \in db'.limits :
            /\ m.user_id = l.user_id /\ m.poll_date = l.poll_date
            /\ m.poll_count >= l.poll_count]_vars
    /\ [][(/\ now' = now
            /\ last'.op \in {"vote", "remove_vote", "like_poll", "unlike_poll",
                             "create_comment", "delete_comment", "delete_poll"})
            => /\ db'.limits = db.limits
               /\ \A w \in Users :
                     check_daily_limit(db', w, now) = check_daily_limit(db, w, now)]_vars

\* the poll a user created today was deleted and the creation stays counted
C30_Witness ==
    /\ last.op = "delete_poll" /\ last.did = "deleted"
    /\ db.polls = {}
    /\ \E l \in db.limits :
          /\ l.poll_date = DateOf(now) /\ l.poll_count = 1
          /\ check_daily_limit(db, l.user_id, now) = DAILY_POLL_LIMIT - 1

====
